---- MODULE Spec2Model ----
(***************************************************************************)
(* gh-pr-feedback (src/main.go): a sequential command-line run that parses *)
(* its arguments, resolves the pull request, fetches five resources,       *)
(* filters and merges them into one PRFeedback aggregate and renders it.   *)
(*                                                                         *)
(* Representation of Go values:                                            *)
(*   - a nullable *int is a sequence: Nil (<<>>) or <<v>>;                 *)
(*   - a timestamp string is a record [kind, sec]: the empty string, a     *)
(*     string time.Parse rejects, or an RFC3339 instant (seconds);         *)
(*   - a multi-line text (Body) is the sequence of its lines, that is      *)
(*     strings.Split(text, "\n"); the empty string is <<"">>;              *)
(*   - a URL is the sequence of its parts, strings.Split(url, "/");        *)
(*   - a command-line argument is the sequence of its characters;          *)
(*   - a time.Duration is a whole number of seconds;                       *)
(*   - non-ASCII glyphs and ESC are written as escaped text.               *)
(***************************************************************************)
EXTENDS Integers, Sequences, FiniteSets, TLC

VARIABLES
    args,            \* os.Args[1:]
    argi,            \* loop index i of the argument loop
    jsonOutput,      \* main: jsonOutput
    targetDir,       \* main: targetDir
    prNumber,        \* main: prNumber
    repoName,        \* main: repoName
    pc,              \* position of the run
    server,          \* what the code host holds for the pull request
    reviewComments,  \* getPRFeedback: decoded review-comments response
    issueComments,   \* getPRFeedback: decoded issue-comments response
    reviews,         \* getPRFeedback: decoded reviews response
    rollup,          \* getStatusChecks: decoded statusCheckRollup
    feedback,        \* the PRFeedback aggregate (NoFeedback until built)
    calls,           \* external calls made so far, in order
    stdout,          \* lines written to standard output
    stderr,          \* messages written to standard error
    exitCode,        \* process exit code (Running until the process ends)
    clock,           \* wall clock, in seconds
    ri,              \* printHumanReadable: index of the next block to print
    dur,             \* formatTimeAgo: the duration argument
    ago              \* formatTimeAgo: the returned text

vars == <<args, argi, jsonOutput, targetDir, prNumber, repoName, pc, server,
          reviewComments, issueComments, reviews, rollup, feedback, calls,
          stdout, stderr, exitCode, clock, ri, dur, ago>>

ArgVars == <<args, argi, jsonOutput, targetDir, prNumber, repoName>>
FetchVars == <<server, reviewComments, issueComments, reviews, rollup, feedback,
               clock, ri>>
TimeVars == <<dur, ago>>

----------------------------------------------------------------------------
(* Bounds of the model *)

MaxReviewComments == 2
MaxIssueComments == 2
MaxReviews == 2
MaxChecks == 2
MaxTicks == 1
MaxArgs == 3
MaxOffset == 1

SeqsUpTo(S, n) == UNION {[1..k -> S] : k \in 0..n}

RECURSIVE Repeat(_, _)
\* strings.Repeat
Repeat(s, n) == IF n = 0 THEN "" ELSE s \o Repeat(s, n - 1)

----------------------------------------------------------------------------
(* Go values *)

Nil == <<>>
Ptr(v) == <<v>>

EmptyTime == [kind |-> "empty", sec |-> 0]
BadTime == [kind |-> "invalid", sec |-> 0]
RFC3339(s) == [kind |-> "rfc3339", sec |-> s]

EmptyText == <<"">>

NoFeedback == [nil |-> TRUE]

\* ANSI color codes
colorReset == "\\033[0m"
colorRed == "\\033[31m"
colorGreen == "\\033[32m"
colorYellow == "\\033[33m"
colorBlue == "\\033[34m"
colorCyan == "\\033[36m"
colorGray == "\\033[90m"
colorBold == "\\033[1m"

Bullet == "\\u2022"
RuleGlyph == "\\u2500"
CrossGlyph == "\\u2717"
CancelGlyph == "\\u2298"
ArrowGlyph == "\\u2192"

\* time.Minute and time.Hour, in seconds
Minute == 60
Hour == 3600

----------------------------------------------------------------------------
(* Time and duration formatting *)

\* time.Parse(time.RFC3339, timeStr): the zero time and an error unless the
\* string is an RFC3339 instant
parseTime(timeStr) ==
    IF timeStr.kind = "rfc3339"
    THEN [err |-> FALSE, zero |-> FALSE, sec |-> timeStr.sec]
    ELSE [err |-> TRUE, zero |-> TRUE, sec |-> 0]

\* daysOf rounding to the nearest day
daysRounded(d) == (d + 12 * Hour) \div (24 * Hour)

\* days := int(d.Hours() / 24)
daysOf(d) == d \div (24 * Hour)

formatTimeAgo(d) ==
    IF d < Minute THEN "just now"
    ELSE IF d < Hour THEN
        LET mins == d \div Minute
        IN  IF mins = 1 THEN "1 minute ago"
            ELSE ToString(mins) \o " minutes ago"
    ELSE IF d < 24 * Hour THEN
        LET hours == d \div Hour
        IN  IF hours = 1 THEN "1 hour ago"
            ELSE ToString(hours) \o " hours ago"
    ELSE
        LET days == daysOf(d)
        IN  IF days = 1 THEN "1 day ago"
            ELSE IF days < 30 THEN ToString(days) \o " days ago"
            ELSE IF days < 365 THEN
                LET months == days \div 30
                IN  IF months = 1 THEN "1 month ago"
                    ELSE ToString(months) \o " months ago"
            ELSE
                LET years == days \div 365
                IN  IF years = 1 THEN "1 year ago"
                    ELSE ToString(years) \o " years ago"

formatDuration(d) ==
    IF d < Minute THEN ToString(d) \o "s"
    ELSE IF d < Hour
    THEN ToString(d \div Minute) \o "m " \o ToString(d % Minute) \o "s"
    ELSE ToString(d \div Hour) \o "h " \o ToString((d \div Minute) % 60) \o "m"

----------------------------------------------------------------------------
(* What the code host can hold: the responses the run decodes *)

\* the instant the run starts at; the sample timestamps lie around it
StartInstant == 1000 * 1000

SamplePR == [Number |-> 117, Title |-> "Add certificate management",
             HTMLURL |-> "https://github.com/o/r/pull/117"]

SampleHunk == << <<"@", "@ -40,3 +40,4 @@">>, <<"-", "old">>, <<"+", "new">>,
                 <<>>, <<" ", "ctx">> >>

RawReviewComment(id, replyTo, created, outdated, assoc, path, line, hunk) ==
    [ID |-> id, Body |-> <<"Consider a clearer", "error message">>,
     Path |-> path, Line |-> line, StartLine |-> Nil, OriginalLine |-> line,
     DiffHunk |-> hunk, AuthorAssoc |-> assoc, User |-> "reviewer",
     InReplyToID |-> replyTo, CreatedAt |-> created, UpdatedAt |-> created,
     Outdated |-> outdated, SubjectType |-> "line"]

ReviewCommentPool ==
    { RawReviewComment(101, Nil, RFC3339(StartInstant - 45), FALSE, "MEMBER",
                       "src/main.go", Ptr(42), SampleHunk),
      RawReviewComment(102, Ptr(101), RFC3339(StartInstant - 45), FALSE,
                       "OWNER", "src/main.go", Ptr(42), SampleHunk),
      RawReviewComment(103, Nil, EmptyTime, TRUE, "NONE", "README.md", Nil,
                       SampleHunk) }

RawIssueComment(id, body, created) ==
    [ID |-> id, Body |-> body, AuthorAssoc |-> "CONTRIBUTOR", User |-> "dev",
     CreatedAt |-> created, UpdatedAt |-> created]

IssueCommentPool ==
    { RawIssueComment(201, <<"Looks good overall">>, RFC3339(StartInstant - 45)),
      RawIssueComment(202, <<"">>, BadTime) }

RawReview(id, body, state) ==
    [ID |-> id, Body |-> body, State |-> state, User |-> "lead",
     AuthorAssoc |-> "OWNER", SubmittedAt |-> RFC3339(StartInstant - 2 * Hour)]

ReviewPool ==
    { RawReview(301, <<"Please split this PR">>, "COMMENTED"),
      RawReview(302, EmptyText, "COMMENTED"),
      RawReview(303, <<"LGTM">>, "APPROVED"),
      RawReview(304, <<"Needs work">>, "CHANGES_REQUESTED"),
      RawReview(305, <<"Draft note">>, "PENDING"),
      RawReview(306, <<"Old verdict">>, "DISMISSED") }

\* strings.Split(detailsURL, "/") of a GitHub Actions job URL
ActionsURL(owner, repo, id) ==
    <<"https:", "", "github.com", owner, repo, "actions", "runs", id, "job", "123">>

RawCheck(name, status, conclusion, url, started, completed) ==
    [Name |-> name, Status |-> status, Conclusion |-> conclusion,
     DetailsURL |-> url, WorkflowName |-> "CI", StartedAt |-> started,
     CompletedAt |-> completed]

Shellcheck ==
    RawCheck("Shellcheck", "COMPLETED", "FAILURE", ActionsURL("o", "r", "16637926739"),
             RFC3339(StartInstant - 500), RFC3339(StartInstant - 494))

CheckPool ==
    { Shellcheck,
      RawCheck("build", "COMPLETED", "SUCCESS", ActionsURL("o", "r", "11"),
               RFC3339(StartInstant - 500), RFC3339(StartInstant - 375)),
      RawCheck("lint", "COMPLETED", "ERROR",
               <<"https:", "", "ci.example.com", "build", "5">>,
               RFC3339(StartInstant - 9000), RFC3339(StartInstant - 1675)),
      RawCheck("deploy", "COMPLETED", "CANCELLED", ActionsURL("runs", "r", "22"),
               EmptyTime, EmptyTime),
      RawCheck("e2e", "IN_PROGRESS", "", ActionsURL("o", "r", "33"),
               RFC3339(StartInstant - 30), EmptyTime),
      RawCheck("docs", "COMPLETED", "NEUTRAL", <<"">>, BadTime, BadTime),
      RawCheck("perf", "COMPLETED", "SKIPPED", ActionsURL("o", "r", "44"),
               EmptyTime, EmptyTime),
      RawCheck("queue", "QUEUED", "", <<"">>, EmptyTime, EmptyTime),
      RawCheck("external", "COMPLETED", "FAILURE",
               <<"https:", "", "ci.example.com", "runs", "5">>,
               EmptyTime, EmptyTime),
      RawCheck("release", "COMPLETED", "FAILURE", ActionsURL("o", "runs", "55"),
               EmptyTime, EmptyTime),
      RawCheck("slow", "COMPLETED", "TIMED_OUT", ActionsURL("o", "r", "66"),
               EmptyTime, EmptyTime) }

\* the code hosts whose collections are drawn from the given sets
World(rcs, ics, rvs, cks) ==
    [pr : {SamplePR}, reviewComments : rcs, issueComments : ics, reviews : rvs,
     rollup : cks]

----------------------------------------------------------------------------
(* getPRFeedback: normalisation, filtering and merging *)

\* the ReviewComment built from one review comment (main.go 281-297)
AnchoredComment(comment) ==
    [ID |-> comment.ID, Body |-> comment.Body, Path |-> comment.Path,
     Line |-> comment.Line, StartLine |-> comment.StartLine,
     OriginalLine |-> comment.OriginalLine, DiffHunk |-> comment.DiffHunk,
     Author |-> comment.User, AuthorAssoc |-> comment.AuthorAssoc,
     State |-> "unresolved", InReplyTo |-> comment.InReplyToID,
     CreatedAt |-> comment.CreatedAt, UpdatedAt |-> comment.UpdatedAt,
     Outdated |-> comment.Outdated, SubjectType |-> comment.SubjectType]

\* a ReviewComment without anchor: the fields left at their zero values
GeneralComment(id, body, author, assoc, created, updated) ==
    [ID |-> id, Body |-> body, Path |-> "", Line |-> Nil, StartLine |-> Nil,
     OriginalLine |-> Nil, DiffHunk |-> <<>>, Author |-> author,
     AuthorAssoc |-> assoc, State |-> "unresolved", InReplyTo |-> Nil,
     CreatedAt |-> created, UpdatedAt |-> updated, Outdated |-> FALSE,
     SubjectType |-> ""]

\* IsTopLevel without the test of the reply linkage
IsTopLevelUnfiltered(comment) == TRUE

\* the condition of the loop over reviewComments
IsTopLevel(comment) == comment.InReplyToID = Nil

RECURSIVE FilterComments(_)
\* the loop over reviewComments: feedback.Comments
FilterComments(rcs) ==
    IF rcs = <<>> THEN <<>>
    ELSE (IF IsTopLevel(Head(rcs)) THEN <<AnchoredComment(Head(rcs))>> ELSE <<>>)
         \o FilterComments(Tail(rcs))

\* the loop over issueComments: what it appends to feedback.GeneralIssues
IssueCommentsToGeneral(ics) ==
    [k \in 1..Len(ics) |->
        GeneralComment(ics[k].ID, ics[k].Body, ics[k].User, ics[k].AuthorAssoc,
                       ics[k].CreatedAt, ics[k].UpdatedAt)]

\* IsReviewSummary without the test of the state
IsReviewSummaryAnyState(review) == review.Body # EmptyText

\* the condition of the loop over reviews
IsReviewSummary(review) == review.Body # EmptyText /\ review.State = "COMMENTED"

RECURSIVE ReviewsToGeneral(_)
\* the loop over reviews: what it appends to feedback.GeneralIssues
ReviewsToGeneral(rvs) ==
    IF rvs = <<>> THEN <<>>
    ELSE (IF IsReviewSummary(Head(rvs))
          THEN <<GeneralComment(Head(rvs).ID, Head(rvs).Body, Head(rvs).User,
                                Head(rvs).AuthorAssoc, Head(rvs).SubmittedAt,
                                Head(rvs).SubmittedAt)>>
          ELSE <<>>)
         \o ReviewsToGeneral(Tail(rvs))

----------------------------------------------------------------------------
(* getStatusChecks and extractRunID *)

\* strings.Contains(detailsURL, "/actions/runs/") on the parts of the URL: a
\* part "actions" with a slash before it, followed by a part "runs" with a
\* slash after it
ContainsActionsRuns(parts) ==
    \E k \in 2..(Len(parts) - 2) : parts[k] = "actions" /\ parts[k + 1] = "runs"

\* extractRunID: the part after the first part "runs" that has one, else ""
extractRunID(parts) ==
    LET hits == {k \in 1..(Len(parts) - 1) : parts[k] = "runs"}
    IN  IF hits = {} THEN ""
        ELSE parts[(CHOOSE k \in hits : \A j \in hits : k <= j) + 1]

\* IsFailing as "anything but a success"
IsFailingOrUnfinished(check) == check.Conclusion # "SUCCESS"

\* the condition of the loop over the rollup
IsFailing(check) ==
    check.Conclusion = "FAILURE" \/ check.Conclusion = "ERROR"
        \/ check.Conclusion = "CANCELLED"

\* the StatusCheck built from one retained rollup entry (main.go 406-423)
FailingCheck(check) ==
    LET runID == IF ContainsActionsRuns(check.DetailsURL)
                 THEN extractRunID(check.DetailsURL) ELSE ""
    IN  [Name |-> check.Name, Status |-> check.Status,
         Conclusion |-> check.Conclusion, DetailsURL |-> check.DetailsURL,
         WorkflowName |-> check.WorkflowName, RunID |-> runID,
         StartedAt |-> check.StartedAt, CompletedAt |-> check.CompletedAt,
         CheckCommand |-> IF runID # "" THEN "gh run view " \o runID ELSE ""]

RECURSIVE FilterChecks(_)
\* the loop over result.StatusCheckRollup
FilterChecks(cks) ==
    IF cks = <<>> THEN <<>>
    ELSE (IF IsFailing(Head(cks)) THEN <<FailingCheck(Head(cks))>> ELSE <<>>)
         \o FilterChecks(Tail(cks))

\* the outcomes of running gh pr view --json statusCheckRollup and decoding
ToolOutcomes == {"ok", "exec-failed", "bad-json"}

\* getStatusChecks(repo, prNumber), given the outcome of the tool
getStatusChecks(outcome, data) ==
    IF outcome = "exec-failed"
    THEN [err |-> "failed to get status checks", rollup |-> <<>>, checks |-> <<>>]
    ELSE IF outcome = "bad-json"
    THEN [err |-> "failed to parse status checks", rollup |-> <<>>, checks |-> <<>>]
    ELSE [err |-> "", rollup |-> data, checks |-> FilterChecks(data)]

----------------------------------------------------------------------------
(* printHumanReadable: the lines of the report.  A line is its text and a  *)
(* tag naming the statement that printed it.                               *)

Line(tag, text) == [tag |-> tag, text |-> text]
Blank == Line("blank", "")
Rule == Line("rule", Repeat(RuleGlyph, 100))

\* strings.ToLower on the author associations
ToLower(assoc) ==
    CASE assoc = "OWNER" -> "owner"
      [] assoc = "MEMBER" -> "member"
      [] assoc = "CONTRIBUTOR" -> "contributor"
      [] assoc = "NONE" -> "none"
      [] OTHER -> assoc

\* strings.Title on the lowercased author associations
Title(lower) ==
    CASE lower = "owner" -> "Owner"
      [] lower = "member" -> "Member"
      [] lower = "contributor" -> "Contributor"
      [] lower = "none" -> "None"
      [] OTHER -> lower

\* time.Since(t): one read of the wall clock
Since(now, t) == now - t

\* the relative time printed for a comment, "" when none is printed
AgoText(created, now) ==
    IF created.kind # "empty" /\ ~parseTime(created).err
    THEN formatTimeAgo(Since(now, parseTime(created).sec))
    ELSE ""

commentCount(fb) == Len(fb.Comments) + Len(fb.GeneralIssues)
checkCount(fb) == Len(fb.StatusChecks)

\* HasSummary without the test of the check count
HasSummaryCommentsOnly(fb) == commentCount(fb) > 0

\* the condition under which the summary is printed (main.go 475)
HasSummary(fb) == commentCount(fb) > 0 \/ checkCount(fb) > 0

\* the summary line (main.go 477-483)
SummaryLine(fb) ==
    IF commentCount(fb) > 0 /\ checkCount(fb) > 0
    THEN Line("summary", colorYellow \o "!" \o colorReset \o " Found "
                \o ToString(commentCount(fb)) \o " unresolved comment(s) and "
                \o ToString(checkCount(fb)) \o " failing check(s)")
    ELSE IF commentCount(fb) > 0
    THEN Line("summary", colorYellow \o "!" \o colorReset \o " Found "
                \o ToString(commentCount(fb)) \o " unresolved comment(s)")
    ELSE Line("summary", colorRed \o "X" \o colorReset \o " Found "
                \o ToString(checkCount(fb)) \o " failing check(s)")

\* title, status, summary and the blank line after them (main.go 471-485)
HeaderLines(fb) ==
    << Line("title", colorBold \o fb.Title \o " #" \o ToString(fb.PRNumber)
                     \o colorReset),
       Line("status", colorGreen \o "Open" \o colorReset \o " " \o Bullet \o " "
                      \o colorGray \o fb.URL \o colorReset) >>
    \o (IF HasSummary(fb) THEN <<Blank, SummaryLine(fb)>> ELSE <<>>)
    \o <<Blank>>

BodyLines(body) == [k \in 1..Len(body) |-> Line("body", body[k])]

\* one block of the general section (main.go 491-512)
GeneralBlock(review, now) ==
    << Line("general", colorBold \o review.Author \o colorReset \o " commented "
                \o colorGray \o "(" \o Title(ToLower(review.AuthorAssoc)) \o ")"
                \o colorReset \o " " \o Bullet \o " " \o colorGray
                \o AgoText(review.CreatedAt, now) \o colorReset),
       Blank >>
    \o BodyLines(review.Body) \o <<Blank>>

RECURSIVE HunkLines(_)
\* printDiffHunk: empty lines dropped, the others coloured by first character
HunkLines(hunk) ==
    IF hunk = <<>> THEN <<>>
    ELSE LET line == Head(hunk)
         IN  (IF Len(line) = 0 THEN <<>>
              ELSE IF line[1] = "+"
              THEN <<Line("hunk", "    " \o colorGreen \o line[2] \o colorReset)>>
              ELSE IF line[1] = "-"
              THEN <<Line("hunk", "    " \o colorRed \o line[2] \o colorReset)>>
              ELSE IF line[1] = "@"
              THEN <<Line("hunk", "    " \o colorCyan \o line[2] \o colorReset)>>
              ELSE <<Line("hunk", "    " \o line[2])>>)
             \o HunkLines(Tail(hunk))

\* one block of the anchored section (main.go 520-563)
AnchoredBlock(comment, last, now) ==
    << Line("anchored",
            colorBold \o comment.Author \o colorReset
            \o (IF comment.AuthorAssoc # "" /\ comment.AuthorAssoc # "NONE"
                THEN " " \o Bullet \o " " \o colorGray
                     \o ToLower(comment.AuthorAssoc) \o colorReset
                ELSE "")
            \o (IF AgoText(comment.CreatedAt, now) # ""
                THEN " " \o Bullet \o " " \o colorGray
                     \o AgoText(comment.CreatedAt, now) \o colorReset
                ELSE "")
            \o (IF comment.Outdated
                THEN " " \o colorYellow \o Bullet \o " Outdated" \o colorReset
                ELSE "")),
       Blank >>
    \o BodyLines(comment.Body) \o <<Blank>>
    \o (IF comment.Path # ""
        THEN << Line("location",
                     colorBlue \o comment.Path
                     \o (IF comment.Line # Nil /\ comment.Line[1] > 0
                         THEN " on line " \o ToString(comment.Line[1]) ELSE "")
                     \o colorReset) >>
             \o (IF comment.DiffHunk # <<>> /\ ~comment.Outdated
                 THEN <<Blank>> \o HunkLines(comment.DiffHunk) ELSE <<>>)
        ELSE <<>>)
    \o (IF ~last THEN <<Blank, Rule, Blank>> ELSE <<>>)

\* one line of the checks section (main.go 574-596)
CheckLine(check) ==
    LET start == parseTime(check.StartedAt)
        end == parseTime(check.CompletedAt)
    IN  Line("check",
             (IF check.Conclusion = "CANCELLED"
              THEN colorYellow \o CancelGlyph ELSE colorRed \o CrossGlyph)
             \o colorReset \o " " \o check.Name
             \o (IF check.StartedAt.kind # "empty" /\ check.CompletedAt.kind # "empty"
                    /\ ~start.zero /\ ~end.zero
                 THEN " " \o colorGray \o "(took "
                      \o formatDuration(end.sec - start.sec) \o ")" \o colorReset
                 ELSE "")
             \o (IF check.CheckCommand # ""
                 THEN " " \o ArrowGlyph \o " " \o colorCyan \o check.CheckCommand
                      \o colorReset
                 ELSE ""))

\* the status checks section (main.go 569-598)
ChecksSection(fb) ==
    IF Len(fb.StatusChecks) > 0
    THEN <<Blank, Rule, Blank,
           Line("checks-title", colorBold \o "Failed Checks" \o colorReset), Blank>>
         \o [k \in 1..Len(fb.StatusChecks) |-> CheckLine(fb.StatusChecks[k])]
    ELSE <<>>

----------------------------------------------------------------------------
(* main: the argument loop, the setup and the resolution of the pull       *)
(* request (main.go 68-175, 197-231)                                       *)

RECURSIVE Text(_)
\* the string made of the characters cs
Text(cs) == IF cs = <<>> THEN "" ELSE Head(cs) \o Text(Tail(cs))

\* strings.HasPrefix(arg, "-")
HasDashPrefix(arg) == arg # <<>> /\ arg[1] = "-"

DigitVal == [c \in {"0", "1", "2", "3", "4", "5", "6", "7", "8", "9"} |->
                CASE c = "0" -> 0 [] c = "1" -> 1 [] c = "2" -> 2 [] c = "3" -> 3
                  [] c = "4" -> 4 [] c = "5" -> 5 [] c = "6" -> 6 [] c = "7" -> 7
                  [] c = "8" -> 8 [] c = "9" -> 9]

RECURSIVE DigitsValue(_, _)
DigitsValue(cs, acc) ==
    IF cs = <<>> THEN acc
    ELSE DigitsValue(Tail(cs), 10 * acc + DigitVal[Head(cs)])

\* strconv.Atoi: an optional sign, then one or more decimal digits
Atoi(arg) ==
    LET signed == arg # <<>> /\ arg[1] \in {"+", "-"}
        digits == IF signed THEN Tail(arg) ELSE arg
    IN  IF digits # <<>> /\ \A k \in DOMAIN digits : digits[k] \in DOMAIN DigitVal
        THEN [err |-> FALSE,
              num |-> IF signed /\ arg[1] = "-" THEN 0 - DigitsValue(digits, 0)
                      ELSE DigitsValue(digits, 0)]
        ELSE [err |-> TRUE, num |-> 0]

\* the first branch of the positional case: num, err := Atoi(arg); err == nil && num > 0
IsPRNumber(arg) == ~Atoi(arg).err /\ Atoi(arg).num > 0

ArgPool ==
    { <<"-", "-", "j", "s", "o", "n">>, <<"-", "j">>,
      <<"-", "-", "r", "e", "p", "o">>, <<"-", "R">>,
      <<"-", "-", "h", "e", "l", "p">>, <<"-", "v">>,
      <<"1", "2">>, <<"3", "4">>, <<"0">>,
      <<"w", "o", "r", "k">>, <<"o", "/", "r">>, <<"-", "x">> }

HelpLines ==
    << Line("help", "Usage: gh pr-feedback [flags] [pr-number|directory]"),
       Line("help", "Extracts unresolved review feedback from a PR"),
       Line("help", ""),
       Line("help", "Arguments:"),
       Line("help", "  pr-number        PR number to view feedback for"),
       Line("help", "  directory        Path to git repository (default: current directory)"),
       Line("help", ""),
       Line("help", "Flags:"),
       Line("help", "  -h, --help       Show help"),
       Line("help", "  -j, --json       Output in JSON format"),
       Line("help", "  -R, --repo       Repository name (owner/name)"),
       Line("help", "  -v, --version    Show version"),
       Line("help", ""),
       Line("help", "Examples:"),
       Line("help", "  gh pr-feedback                      # Current PR in current directory"),
       Line("help", "  gh pr-feedback 117                  # PR 117 in current repo"),
       Line("help", "  gh pr-feedback 117 --repo owner/name  # PR 117 in specified repo"),
       Line("help", "  gh pr-feedback /path/to/repo        # Current PR in specified directory") >>

InLoop == pc = "args" /\ argi <= Len(args)
Arg == Text(args[argi])

Exit(code, out, err) ==
    /\ pc' = "exited"
    /\ exitCode' = code
    /\ stdout' = stdout \o out
    /\ stderr' = stderr \o err

ArgVersion ==
    /\ InLoop /\ Arg \in {"--version", "-v"}
    /\ Exit(0, <<Line("version", "gh-pr-feedback v1.2.0")>>, <<>>)
    /\ UNCHANGED <<ArgVars, TimeVars, FetchVars, calls>>

ArgHelp ==
    /\ InLoop /\ Arg \in {"--help", "-h"}
    /\ Exit(0, HelpLines, <<>>)
    /\ UNCHANGED <<ArgVars, TimeVars, FetchVars, calls>>

ArgJSON ==
    /\ InLoop /\ Arg \in {"--json", "-j"}
    /\ jsonOutput' = TRUE
    /\ argi' = argi + 1
    /\ UNCHANGED <<args, targetDir, prNumber, repoName, pc, TimeVars, FetchVars,
                   calls, stdout, stderr, exitCode>>

ArgRepo ==
    /\ InLoop /\ Arg \in {"--repo", "-R"}
    /\ argi + 1 <= Len(args)
    /\ repoName' = Text(args[argi + 1])
    /\ argi' = argi + 2
    /\ UNCHANGED <<args, jsonOutput, targetDir, prNumber, pc, TimeVars, FetchVars,
                   calls, stdout, stderr, exitCode>>

ArgRepoMissing ==
    /\ InLoop /\ Arg \in {"--repo", "-R"}
    /\ argi + 1 > Len(args)
    /\ Exit(1, <<>>, <<"Error: --repo requires a value">>)
    /\ UNCHANGED <<ArgVars, TimeVars, FetchVars, calls>>

IsPositional ==
    /\ InLoop
    /\ Arg \notin {"--version", "-v", "--help", "-h", "--json", "-j", "--repo", "-R"}
    /\ ~HasDashPrefix(args[argi])

ArgPRNumber ==
    /\ IsPositional /\ IsPRNumber(args[argi])
    /\ prNumber' = Atoi(args[argi]).num
    /\ argi' = argi + 1
    /\ UNCHANGED <<args, jsonOutput, targetDir, repoName, pc, TimeVars, FetchVars,
                   calls, stdout, stderr, exitCode>>

\* the first directory argument; os.Stat finds it
ArgDirectory ==
    /\ IsPositional /\ ~IsPRNumber(args[argi]) /\ targetDir = ""
    /\ targetDir' = Arg
    /\ argi' = argi + 1
    /\ UNCHANGED <<args, jsonOutput, prNumber, repoName, pc, TimeVars, FetchVars,
                   calls, stdout, stderr, exitCode>>

\* the first directory argument; os.Stat reports that it does not exist
ArgDirectoryMissing ==
    /\ IsPositional /\ ~IsPRNumber(args[argi]) /\ targetDir = ""
    /\ targetDir' = Arg
    /\ Exit(1, <<>>, <<"Error: Directory '" \o Arg \o "' does not exist">>)
    /\ UNCHANGED <<args, argi, jsonOutput, prNumber, repoName, TimeVars,
                   FetchVars, calls>>

\* an argument no branch handles: an unknown flag, or a further directory
ArgSkipped ==
    /\ InLoop
    /\ Arg \notin {"--version", "-v", "--help", "-h", "--json", "-j", "--repo", "-R"}
    /\ \/ HasDashPrefix(args[argi])
       \/ ~IsPRNumber(args[argi]) /\ targetDir # ""
    /\ argi' = argi + 1
    /\ UNCHANGED <<args, jsonOutput, targetDir, prNumber, repoName, pc, TimeVars,
                   FetchVars, calls, stdout, stderr, exitCode>>

LoopDone == pc = "args" /\ argi > Len(args)
DirAfterLoop == IF targetDir = "" THEN "." ELSE targetDir

\* after the loop: the default directory, os.Getwd, os.Chdir and the client
Setup ==
    /\ LoopDone
    /\ targetDir' = DirAfterLoop
    /\ pc' = "resolve"
    /\ UNCHANGED <<args, argi, jsonOutput, prNumber, repoName, TimeVars,
                   FetchVars, calls, stdout, stderr, exitCode>>

SetupFailed ==
    /\ LoopDone
    /\ targetDir' = DirAfterLoop
    /\ \E failure \in {"Error getting current directory", "Error creating GitHub client"}
                      \cup (IF DirAfterLoop # "."
                            THEN {"Error changing to directory '" \o DirAfterLoop \o "'"}
                            ELSE {}) :
          Exit(1, <<>>, <<failure>>)
    /\ UNCHANGED <<args, argi, jsonOutput, prNumber, repoName, TimeVars,
                   FetchVars, calls>>

PRViewCommand == <<"gh", "pr", "view", "--json", "number">>
RepoViewCommand == <<"gh", "repo", "view", "--json", "nameWithOwner">>

\* getCurrentPR, given the outcomes of the two tool runs: the error (or ""),
\* the results and the tool runs made
getCurrentPR(prView, repoView) ==
    IF prView = "exec-failed"
    THEN [err |-> "no PR found for current branch", number |-> 0, repo |-> "",
          ran |-> <<PRViewCommand>>]
    ELSE IF prView = "bad-json"
    THEN [err |-> "failed to parse PR data", number |-> 0, repo |-> "",
          ran |-> <<PRViewCommand>>]
    ELSE IF repoView = "exec-failed"
    THEN [err |-> "failed to get repository info", number |-> 0, repo |-> "",
          ran |-> <<PRViewCommand, RepoViewCommand>>]
    ELSE IF repoView = "bad-json"
    THEN [err |-> "failed to parse repository data", number |-> 0, repo |-> "",
          ran |-> <<PRViewCommand, RepoViewCommand>>]
    ELSE [err |-> "", number |-> 42, repo |-> "o/r",
          ran |-> <<PRViewCommand, RepoViewCommand>>]

\* a PR number and a repository were given
ResolveExplicit ==
    /\ pc = "resolve" /\ prNumber > 0 /\ repoName # ""
    /\ pc' = "fetchPR"
    /\ UNCHANGED <<ArgVars, TimeVars, FetchVars, calls, stdout, stderr, exitCode>>

\* a PR number without repository: the repository of the working directory
ResolveRepo ==
    /\ pc = "resolve" /\ prNumber > 0 /\ repoName = ""
    /\ \E prView \in ToolOutcomes, repoView \in ToolOutcomes :
          LET res == getCurrentPR(prView, repoView)
          IN  /\ res.err = ""
              /\ repoName' = res.repo
              /\ calls' = calls \o res.ran
    /\ pc' = "fetchPR"
    /\ UNCHANGED <<args, argi, jsonOutput, targetDir, prNumber, TimeVars,
                   FetchVars, stdout, stderr, exitCode>>

ResolveRepoFailed ==
    /\ pc = "resolve" /\ prNumber > 0 /\ repoName = ""
    /\ \E prView \in ToolOutcomes, repoView \in ToolOutcomes :
          LET res == getCurrentPR(prView, repoView)
          IN  /\ res.err # ""
              /\ calls' = calls \o res.ran
    /\ Exit(1, <<>>,
            <<"Error: PR number provided but couldn't determine repository.",
              "Use --repo to specify the repository (e.g., --repo owner/name)">>)
    /\ UNCHANGED <<ArgVars, TimeVars, FetchVars>>

\* no PR number: the pull request of the current branch
ResolveCurrent ==
    /\ pc = "resolve" /\ prNumber <= 0
    /\ \E prView \in ToolOutcomes, repoView \in ToolOutcomes :
          LET res == getCurrentPR(prView, repoView)
          IN  /\ res.err = ""
              /\ prNumber' = res.number
              /\ repoName' = res.repo
              /\ calls' = calls \o res.ran
    /\ pc' = "fetchPR"
    /\ UNCHANGED <<args, argi, jsonOutput, targetDir, TimeVars, FetchVars,
                   stdout, stderr, exitCode>>

ResolveCurrentFailed ==
    /\ pc = "resolve" /\ prNumber <= 0
    /\ \E prView \in ToolOutcomes, repoView \in ToolOutcomes :
          LET res == getCurrentPR(prView, repoView)
          IN  /\ res.err # ""
              /\ calls' = calls \o res.ran
              /\ Exit(1, <<>>,
                      <<"Error: " \o res.err,
                        "Make sure you're in a git repository with an open PR.",
                        "You can check PR status with: gh pr status",
                        "Or specify a PR number: gh pr-feedback 123 --repo owner/name">>)
    /\ UNCHANGED <<ArgVars, TimeVars, FetchVars>>

NextArgs ==
    \/ ArgVersion \/ ArgHelp \/ ArgJSON \/ ArgRepo \/ ArgRepoMissing
    \/ ArgPRNumber \/ ArgDirectory \/ ArgDirectoryMissing \/ ArgSkipped
    \/ Setup \/ SetupFailed
    \/ ResolveExplicit \/ ResolveRepo \/ ResolveRepoFailed
    \/ ResolveCurrent \/ ResolveCurrentFailed

InitArgs ==
    /\ args \in SeqsUpTo(ArgPool, MaxArgs)
    /\ argi = 1
    /\ jsonOutput = FALSE /\ targetDir = "" /\ prNumber = 0 /\ repoName = ""
    /\ pc = "args"
    /\ server \in World({<<>>}, {<<>>}, {<<>>}, {<<>>})
    /\ reviewComments = <<>> /\ issueComments = <<>> /\ reviews = <<>>
    /\ rollup = <<>> /\ feedback = NoFeedback
    /\ calls = <<>> /\ stdout = <<>> /\ stderr = <<>>
    /\ exitCode = 0 /\ clock = StartInstant /\ ri = 0
    /\ dur = 0 /\ ago = ""

SpecArgs == InitArgs /\ [][NextArgs]_vars

----------------------------------------------------------------------------
(* The run from the call of getPRFeedback on (main.go 177-195, 233-375) *)

FetchOrder == <<"fetchPR", "fetchReviewComments", "fetchIssueComments",
                "fetchReviews", "fetchChecks">>

StepIndex(step) == CHOOSE k \in 1..Len(FetchOrder) : FetchOrder[k] = step

\* where the run goes after a fetch step that continues
Following(step) ==
    IF StepIndex(step) < Len(FetchOrder) THEN FetchOrder[StepIndex(step) + 1]
    ELSE "output"

\* AfterFetch without the return on error
AfterFetchNoReturn(step, ok) == Following(step)

\* AfterFetch with the error of the last step returned like the others
AfterFetchChecksFatal(step, ok) == IF ok THEN Following(step) ELSE "exited"

\* where the run goes after a fetch step: an error of one of the first four
\* returns from getPRFeedback and exits, an error of the last is only logged
AfterFetch(step, ok) ==
    IF ok \/ step = "fetchChecks" THEN Following(step) ELSE "exited"

PREndpoint == "repos/" \o repoName \o "/pulls/" \o ToString(prNumber)
ReviewEndpoint == PREndpoint \o "/comments"
IssueEndpoint == "repos/" \o repoName \o "/issues/" \o ToString(prNumber) \o "/comments"
ReviewsEndpoint == PREndpoint \o "/reviews"
RollupCommand == <<"gh", "pr", "view", ToString(prNumber), "--repo", repoName,
                   "--json", "statusCheckRollup">>

Get(endpoint) == <<"GET", endpoint>>

\* client.Get returned an error: getPRFeedback returns (nil, err), main
\* reports it and exits
FetchFailed(step, endpoint, what) ==
    /\ pc = step
    /\ calls' = Append(calls, Get(endpoint))
    /\ feedback' = NoFeedback
    /\ stderr' = Append(stderr, "Error fetching PR feedback: failed to fetch " \o what)
    /\ pc' = AfterFetch(step, FALSE)
    /\ exitCode' = 1
    /\ UNCHANGED <<ArgVars, TimeVars, server, reviewComments, issueComments,
                   reviews, rollup, stdout, clock, ri>>

FetchPR ==
    /\ pc = "fetchPR"
    /\ calls' = Append(calls, Get(PREndpoint))
    /\ feedback' = [PRNumber |-> server.pr.Number, Title |-> server.pr.Title,
                    URL |-> server.pr.HTMLURL, Comments |-> <<>>,
                    GeneralIssues |-> <<>>, StatusChecks |-> <<>>]
    /\ pc' = AfterFetch("fetchPR", TRUE)
    /\ UNCHANGED <<ArgVars, TimeVars, server, reviewComments, issueComments,
                   reviews, rollup, stdout, stderr, exitCode, clock, ri>>

FetchPRFailed == FetchFailed("fetchPR", PREndpoint, "PR details")

FetchReviewComments ==
    /\ pc = "fetchReviewComments"
    /\ calls' = Append(calls, Get(ReviewEndpoint))
    /\ reviewComments' = server.reviewComments
    /\ feedback' = [feedback EXCEPT !.Comments = FilterComments(server.reviewComments)]
    /\ pc' = AfterFetch("fetchReviewComments", TRUE)
    /\ UNCHANGED <<ArgVars, TimeVars, server, issueComments, reviews, rollup,
                   stdout, stderr, exitCode, clock, ri>>

FetchReviewCommentsFailed ==
    FetchFailed("fetchReviewComments", ReviewEndpoint, "review comments")

FetchIssueComments ==
    /\ pc = "fetchIssueComments"
    /\ calls' = Append(calls, Get(IssueEndpoint))
    /\ issueComments' = server.issueComments
    /\ feedback' = [feedback EXCEPT !.GeneralIssues =
                        @ \o IssueCommentsToGeneral(server.issueComments)]
    /\ pc' = AfterFetch("fetchIssueComments", TRUE)
    /\ UNCHANGED <<ArgVars, TimeVars, server, reviewComments, reviews, rollup,
                   stdout, stderr, exitCode, clock, ri>>

FetchIssueCommentsFailed ==
    FetchFailed("fetchIssueComments", IssueEndpoint, "issue comments")

FetchReviews ==
    /\ pc = "fetchReviews"
    /\ calls' = Append(calls, Get(ReviewsEndpoint))
    /\ reviews' = server.reviews
    /\ feedback' = [feedback EXCEPT !.GeneralIssues =
                        @ \o ReviewsToGeneral(server.reviews)]
    /\ pc' = AfterFetch("fetchReviews", TRUE)
    /\ UNCHANGED <<ArgVars, TimeVars, server, reviewComments, issueComments,
                   rollup, stdout, stderr, exitCode, clock, ri>>

FetchReviewsFailed == FetchFailed("fetchReviews", ReviewsEndpoint, "reviews")

\* getStatusChecks succeeded: feedback.StatusChecks = statusChecks
FetchChecks ==
    /\ pc = "fetchChecks"
    /\ LET res == getStatusChecks("ok", server.rollup)
       IN  /\ rollup' = res.rollup
           /\ feedback' = [feedback EXCEPT !.StatusChecks = res.checks]
    /\ calls' = Append(calls, RollupCommand)
    /\ pc' = AfterFetch("fetchChecks", TRUE)
    /\ UNCHANGED <<ArgVars, TimeVars, server, reviewComments, issueComments,
                   reviews, stdout, stderr, exitCode, clock, ri>>

\* getStatusChecks returned an error: a warning, feedback.StatusChecks stays nil
FetchChecksFailed ==
    /\ pc = "fetchChecks"
    /\ \E outcome \in ToolOutcomes \ {"ok"} :
          LET res == getStatusChecks(outcome, server.rollup)
          IN  stderr' = Append(stderr, "Warning: failed to fetch status checks: "
                                       \o res.err)
    /\ calls' = Append(calls, RollupCommand)
    /\ pc' = AfterFetch("fetchChecks", FALSE)
    /\ UNCHANGED <<ArgVars, TimeVars, server, reviewComments, issueComments,
                   reviews, rollup, feedback, stdout, exitCode, clock, ri>>

\* --json: json.MarshalIndent of the aggregate, printed, and main returns
\* (encoding these structs of strings, integers and booleans cannot fail)
OutputJSON ==
    /\ pc = "output" /\ jsonOutput
    /\ stdout' = <<[tag |-> "json", text |-> "", doc |-> feedback]>>
    /\ pc' = "exited"
    /\ exitCode' = 0
    /\ UNCHANGED <<ArgVars, TimeVars, server, reviewComments, issueComments,
                   reviews, rollup, feedback, calls, stderr, clock, ri>>

\* printHumanReadable up to the general section
RenderHeader ==
    /\ pc = "output" /\ ~jsonOutput
    /\ stdout' = HeaderLines(feedback)
    /\ pc' = "renderGeneral"
    /\ ri' = 1
    /\ UNCHANGED <<ArgVars, TimeVars, server, reviewComments, issueComments,
                   reviews, rollup, feedback, calls, stderr, exitCode, clock>>

\* one iteration of the loop over feedback.GeneralIssues
RenderGeneral ==
    /\ pc = "renderGeneral" /\ ri <= Len(feedback.GeneralIssues)
    /\ stdout' = stdout \o GeneralBlock(feedback.GeneralIssues[ri], clock)
    /\ ri' = ri + 1
    /\ UNCHANGED <<ArgVars, TimeVars, server, reviewComments, issueComments,
                   reviews, rollup, feedback, calls, stderr, exitCode, clock, pc>>

\* the rule that opens the anchored section, when there are anchored comments
RenderAnchoredRule ==
    /\ pc = "renderGeneral" /\ ri > Len(feedback.GeneralIssues)
    /\ stdout' = stdout \o (IF Len(feedback.Comments) > 0 THEN <<Rule, Blank>>
                            ELSE <<>>)
    /\ pc' = "renderAnchored"
    /\ ri' = 1
    /\ UNCHANGED <<ArgVars, TimeVars, server, reviewComments, issueComments,
                   reviews, rollup, feedback, calls, stderr, exitCode, clock>>

\* one iteration of the loop over feedback.Comments
RenderAnchored ==
    /\ pc = "renderAnchored" /\ ri <= Len(feedback.Comments)
    /\ stdout' = stdout \o AnchoredBlock(feedback.Comments[ri],
                                         ri = Len(feedback.Comments), clock)
    /\ ri' = ri + 1
    /\ UNCHANGED <<ArgVars, TimeVars, server, reviewComments, issueComments,
                   reviews, rollup, feedback, calls, stderr, exitCode, clock, pc>>

\* the status checks section, and main returns
RenderChecks ==
    /\ pc = "renderAnchored" /\ ri > Len(feedback.Comments)
    /\ stdout' = stdout \o ChecksSection(feedback)
    /\ pc' = "exited"
    /\ exitCode' = 0
    /\ UNCHANGED <<ArgVars, TimeVars, server, reviewComments, issueComments,
                   reviews, rollup, feedback, calls, stderr, clock, ri>>

TickStep == Minute \div 2

\* time passes while the report is printed (the clock is read nowhere else)
Tick ==
    /\ pc \in {"renderGeneral", "renderAnchored"}
    /\ clock < StartInstant + MaxTicks * TickStep
    /\ clock' = clock + TickStep
    /\ UNCHANGED <<ArgVars, TimeVars, server, reviewComments, issueComments,
                   reviews, rollup, feedback, calls, stdout, stderr, exitCode,
                   pc, ri>>

Next ==
    \/ FetchPR \/ FetchPRFailed
    \/ FetchReviewComments \/ FetchReviewCommentsFailed
    \/ FetchIssueComments \/ FetchIssueCommentsFailed
    \/ FetchReviews \/ FetchReviewsFailed
    \/ FetchChecks \/ FetchChecksFailed
    \/ OutputJSON \/ RenderHeader \/ RenderGeneral \/ RenderAnchoredRule
    \/ RenderAnchored \/ RenderChecks \/ Tick

ExplicitArgs == << <<"1", "1", "7">>, <<"-", "-", "r", "e", "p", "o">>, <<"o", "/", "r">> >>
JSONFlag == <<"-", "-", "j", "s", "o", "n">>

\* the state at the call of getPRFeedback of the runs
\* gh pr-feedback 117 --repo o/r [--json], for the code hosts in worlds
InitFetch(worlds) ==
    /\ server \in worlds
    /\ jsonOutput \in BOOLEAN
    /\ args = IF jsonOutput THEN Append(ExplicitArgs, JSONFlag) ELSE ExplicitArgs
    /\ argi = Len(args) + 1
    /\ targetDir = "."
    /\ prNumber = Atoi(args[1]).num /\ repoName = Text(args[3])
    /\ pc = "fetchPR"
    /\ reviewComments = <<>> /\ issueComments = <<>> /\ reviews = <<>>
    /\ rollup = <<>>
    /\ feedback = NoFeedback
    /\ calls = <<>> /\ stdout = <<>> /\ stderr = <<>>
    /\ exitCode = 0
    /\ clock = StartInstant
    /\ ri = 0
    /\ dur = 0 /\ ago = ""

OneIssueComment == <<RawIssueComment(201, <<"Looks good overall">>,
                                     RFC3339(StartInstant - 45))>>
OneReview == <<RawReview(301, <<"Please split this PR">>, "COMMENTED")>>

\* review comments varied, the other collections empty or a single item
Init ==
    InitFetch(World(SeqsUpTo(ReviewCommentPool, MaxReviewComments),
                    {<<>>, OneIssueComment}, {<<>>, OneReview},
                    {<<>>, <<Shellcheck>>}))

Spec == Init /\ [][Next]_vars

\* issue comments and reviews varied
InitGeneral ==
    InitFetch(World({<<CHOOSE c \in ReviewCommentPool : c.ID = 101>>},
                    SeqsUpTo(IssueCommentPool, MaxIssueComments),
                    SeqsUpTo(ReviewPool, MaxReviews), {<<Shellcheck>>}))

SpecGeneral == InitGeneral /\ [][Next]_vars

\* the status check rollup varied
InitChecks ==
    InitFetch(World({<<CHOOSE c \in ReviewCommentPool : c.ID = 101>>},
                    {OneIssueComment}, {<<>>}, SeqsUpTo(CheckPool, MaxChecks)))

SpecChecks == InitChecks /\ [][Next]_vars

----------------------------------------------------------------------------
(* Properties of the run from getPRFeedback on *)

Finished == pc = "exited"
Reported == Finished /\ exitCode = 0
ReportedHuman == Reported /\ ~jsonOutput

Range(f) == {f[k] : k \in DOMAIN f}
Count(tag) == Cardinality({k \in DOMAIN stdout : stdout[k].tag = tag})
IDs(cs) == [k \in DOMAIN cs |-> cs[k].ID]

\* the raw review comments that reply to nothing, in the order of the response
TopLevelRaw == SelectSeq(reviewComments, LAMBDA c : c.InReplyToID = Nil)

ReviewCommentsFetched ==
    /\ feedback # NoFeedback
    /\ pc \notin {"fetchPR", "fetchReviewComments"}

\* C1: once the review comments are fetched, no anchored comment of the
\* aggregate has a reply linkage, and the anchored comments are exactly the raw
\* review comments without reply linkage, in the order of the response.
C1_AnchoredAreTopLevel ==
    ReviewCommentsFetched =>
        /\ \A k \in DOMAIN feedback.Comments : feedback.Comments[k].InReplyTo = Nil
        /\ Len(feedback.Comments) = Len(TopLevelRaw)
        /\ \A k \in DOMAIN feedback.Comments :
              /\ feedback.Comments[k].ID = TopLevelRaw[k].ID
              /\ feedback.Comments[k].Body = TopLevelRaw[k].Body
              /\ feedback.Comments[k].Path = TopLevelRaw[k].Path
              /\ feedback.Comments[k].CreatedAt = TopLevelRaw[k].CreatedAt

\* a reply between two top-level comments was fetched and dropped
C1_Witness ==
    /\ Reported
    /\ Len(reviewComments) = 2
    /\ reviewComments[1].InReplyToID # Nil
    /\ reviewComments[2].InReplyToID = Nil
    /\ IDs(feedback.Comments) = <<reviewComments[2].ID>>

ExpectedCalls ==
    <<Get(PREndpoint), Get(ReviewEndpoint), Get(IssueEndpoint),
      Get(ReviewsEndpoint), RollupCommand>>

FatalMessage(k) ==
    "Error fetching PR feedback: failed to fetch "
    \o <<"PR details", "review comments", "issue comments", "reviews">>[k]

\* C3: the calls made are always a prefix of PR metadata, review comments,
\* issue comments, reviews, status checks (strict order, none repeated); and
\* once the k-th of the first four has failed, the run has ended with exit code
\* 1, exactly k calls were made, there is no aggregate, standard output is
\* empty and the failure is the only message on standard error.
C3_FatalFetchAborts ==
    /\ Len(calls) <= Len(ExpectedCalls)
    /\ calls = SubSeq(ExpectedCalls, 1, Len(calls))
    /\ \A k \in 1..4 :
          FatalMessage(k) \in Range(stderr) =>
              /\ Finished /\ exitCode = 1
              /\ Len(calls) = k
              /\ feedback = NoFeedback
              /\ stdout = <<>>
              /\ stderr = <<FatalMessage(k)>>
    /\ (Finished /\ exitCode = 1) => \E k \in 1..4 : FatalMessage(k) \in Range(stderr)

\* the reviews fetch failed after three successful fetches
C3_Witness ==
    /\ Finished /\ exitCode = 1
    /\ Len(calls) = 4
    /\ reviewComments # <<>> /\ issueComments # <<>>
    /\ FatalMessage(4) \in Range(stderr)

RollupWarnings ==
    {"Warning: failed to fetch status checks: failed to get status checks",
     "Warning: failed to fetch status checks: failed to parse status checks"}

Warned == Range(stderr) \cap RollupWarnings # {}

\* C4: the failing rollup step leaves the aggregate as it was but for an empty
\* status-checks collection and goes on to the output; after a rollup warning
\* the aggregate exists with no status checks, nothing else is on standard
\* error, and the run ends with the report printed and exit code 0.
C4_RollupFailureNonFatal ==
    /\ [][pc = "fetchChecks" =>
            /\ feedback # NoFeedback /\ feedback' # NoFeedback
            /\ [feedback' EXCEPT !.StatusChecks = <<>>] = feedback
            /\ stderr' # stderr =>
                  /\ feedback'.StatusChecks = <<>>
                  /\ stderr' \in {Append(stderr, w) : w \in RollupWarnings}
                  /\ pc' = "output"]_vars
    /\ [](Warned =>
            /\ feedback # NoFeedback
            /\ feedback.StatusChecks = <<>>
            /\ feedback.PRNumber = server.pr.Number
            /\ Len(stderr) = 1
            /\ Len(calls) = 5
            /\ exitCode = 0
            /\ Finished => stdout # <<>>)

\* the rollup failed although the code host holds a failing check, and the
\* report with the anchored comments was printed
C4_Witness ==
    /\ Warned /\ Reported
    /\ server.rollup # <<>>
    /\ feedback.Comments # <<>>
    /\ stdout # <<>>

Tags == [k \in DOMAIN stdout |-> stdout[k].tag]
Texts(tag) == {stdout[k].text : k \in {j \in DOMAIN stdout : stdout[j].tag = tag}}
FirstLine(tag) == CHOOSE k \in DOMAIN stdout :
                     stdout[k].tag = tag /\ \A j \in 1..(k - 1) : stdout[j].tag # tag

Comments == Len(feedback.Comments) + Len(feedback.GeneralIssues)
Checks == Len(feedback.StatusChecks)

BothCounts ==
    " Found " \o ToString(Comments) \o " unresolved comment(s) and "
    \o ToString(Checks) \o " failing check(s)"
CommentCountOnly == " Found " \o ToString(Comments) \o " unresolved comment(s)"
CheckCountOnly == " Found " \o ToString(Checks) \o " failing check(s)"

RECURSIVE GeneralBlocks(_, _)
GeneralBlocks(cs, now) ==
    IF cs = <<>> THEN <<>>
    ELSE GeneralBlock(Head(cs), now) \o GeneralBlocks(Tail(cs), now)

RECURSIVE AnchoredBlocks(_, _)
AnchoredBlocks(cs, now) ==
    IF cs = <<>> THEN <<>>
    ELSE AnchoredBlock(Head(cs), Len(cs) = 1, now) \o AnchoredBlocks(Tail(cs), now)

\* the report for an aggregate when every relative time is taken from one
\* instant
ReportAt(fb, now) ==
    HeaderLines(fb) \o GeneralBlocks(fb.GeneralIssues, now)
    \o (IF fb.Comments # <<>> THEN <<Rule, Blank>> ELSE <<>>)
    \o AnchoredBlocks(fb.Comments, now) \o ChecksSection(fb)

Instants == {StartInstant + k * TickStep : k \in 0..MaxTicks}

\* C6: the human-readable report is a function of the aggregate and of one
\* instant: every relative time in it is taken from the same "now", so that
\* rendering the aggregate again for that instant gives the same text.
C6_OneInstantPerRender ==
    ReportedHuman => \E now \in Instants : stdout = ReportAt(feedback, now)

GeneralFetched ==
    /\ feedback # NoFeedback
    /\ pc \notin {"fetchPR", "fetchReviewComments", "fetchIssueComments",
                  "fetchReviews"}

\* the reviews that carry a summary comment, in the order of the response
SummaryReviews ==
    SelectSeq(reviews, LAMBDA r : r.Body # <<"">> /\ r.State = "COMMENTED")

\* C8: once the reviews are fetched, the general issues are every issue
\* comment in the order of the response followed by the reviews with a
\* non-empty body and state "COMMENTED" in the order of the response; a review
\* with an empty body or with another state is not in the aggregate.
C8_GeneralIssuesMerge ==
    GeneralFetched =>
        /\ IDs(feedback.GeneralIssues) = IDs(issueComments) \o IDs(SummaryReviews)
        /\ \A k \in DOMAIN issueComments :
              feedback.GeneralIssues[k].Body = issueComments[k].Body
        /\ \A k \in DOMAIN SummaryReviews :
              /\ feedback.GeneralIssues[Len(issueComments) + k].Body
                    = SummaryReviews[k].Body
              /\ feedback.GeneralIssues[Len(issueComments) + k].CreatedAt
                    = SummaryReviews[k].SubmittedAt
        /\ \A k \in DOMAIN reviews :
              (reviews[k].Body = <<"">> \/ reviews[k].State # "COMMENTED") =>
                  /\ reviews[k].ID \notin Range(IDs(feedback.GeneralIssues))
                  /\ reviews[k].ID \notin Range(IDs(feedback.Comments))

\* two issue comments, then a review that requests changes with a body
\* (dropped) and a commenting review with a body (kept)
C8_Witness ==
    /\ Reported
    /\ Len(issueComments) = 2
    /\ Len(reviews) = 2
    /\ reviews[1].State = "CHANGES_REQUESTED" /\ reviews[1].Body # <<"">>
    /\ reviews[2].State = "COMMENTED" /\ reviews[2].Body # <<"">>
    /\ IDs(feedback.GeneralIssues) = IDs(issueComments) \o <<reviews[2].ID>>

ChecksFetched == feedback # NoFeedback /\ pc \notin Range(FetchOrder)

FailingConclusions == {"FAILURE", "ERROR", "CANCELLED"}

FailingRaw == SelectSeq(rollup, LAMBDA c : c.Conclusion \in FailingConclusions)

\* C2: once the rollup is fetched, the status checks of the aggregate are the
\* rollup entries whose conclusion is FAILURE, ERROR or CANCELLED, in rollup
\* order; no entry with another conclusion is among them.
C2_OnlyFailingChecks ==
    ChecksFetched =>
        /\ Len(feedback.StatusChecks) = Len(FailingRaw)
        /\ \A k \in DOMAIN feedback.StatusChecks :
              /\ feedback.StatusChecks[k].Name = FailingRaw[k].Name
              /\ feedback.StatusChecks[k].Conclusion = FailingRaw[k].Conclusion
              /\ feedback.StatusChecks[k].DetailsURL = FailingRaw[k].DetailsURL
              /\ feedback.StatusChecks[k].Conclusion \in FailingConclusions

\* a rollup of a check without conclusion and a failed one: one retained
C2_Witness ==
    /\ Reported
    /\ Len(rollup) = 2
    /\ rollup[1].Conclusion = "" /\ rollup[2].Conclusion = "CANCELLED"
    /\ Len(feedback.StatusChecks) = 1
    /\ feedback.StatusChecks[1].Name = rollup[2].Name

\* the URL has the form .../actions/runs/{id}/...
HasRunForm(parts) ==
    \E k \in 2..(Len(parts) - 3) : parts[k] = "actions" /\ parts[k + 1] = "runs"

\* the {id} of a URL of that form
RunOf(parts) ==
    LET k == CHOOSE k \in 2..(Len(parts) - 3) :
                 /\ parts[k] = "actions" /\ parts[k + 1] = "runs"
                 /\ \A j \in 2..(k - 1) : ~(parts[j] = "actions" /\ parts[j + 1] = "runs")
    IN  parts[k + 2]

\* C7: a retained check whose details URL has the form
\* .../actions/runs/{id}/..., whatever the owner and the repository in it, has
\* run identifier {id} and command "gh run view {id}"; a retained check whose
\* details URL has no part "runs" has no run identifier and no command.
C7_RunIdentifier ==
    ChecksFetched =>
        \A k \in DOMAIN feedback.StatusChecks :
            LET check == feedback.StatusChecks[k]
            IN  /\ HasRunForm(check.DetailsURL) =>
                      /\ check.RunID = RunOf(check.DetailsURL)
                      /\ check.CheckCommand = "gh run view " \o RunOf(check.DetailsURL)
                /\ "runs" \notin Range(check.DetailsURL) =>
                      check.RunID = "" /\ check.CheckCommand = ""

----------------------------------------------------------------------------
(* formatTimeAgo on its own *)

Boundaries ==
    {0, 30, Minute, 90, 2 * Minute, 59 * Minute, Hour, 2 * Hour, 23 * Hour,
     24 * Hour, 26 * Hour, 48 * Hour, 29 * 24 * Hour, 30 * 24 * Hour,
     40 * 24 * Hour, 60 * 24 * Hour, 364 * 24 * Hour, 365 * 24 * Hour,
     400 * 24 * Hour, 730 * 24 * Hour, 0 - Hour}

Durations == {b + o : b \in Boundaries, o \in (0 - MaxOffset)..MaxOffset}

InitTimeAgo ==
    /\ dur \in Durations /\ ago = ""
    /\ pc = "formatTimeAgo"
    /\ server \in World({<<>>}, {<<>>}, {<<>>}, {<<>>})
    /\ args = <<>> /\ argi = 1 /\ targetDir = "." /\ jsonOutput = FALSE
    /\ prNumber = 0 /\ repoName = ""
    /\ reviewComments = <<>> /\ issueComments = <<>> /\ reviews = <<>>
    /\ rollup = <<>> /\ feedback = NoFeedback
    /\ calls = <<>> /\ stdout = <<>> /\ stderr = <<>>
    /\ exitCode = 0 /\ clock = StartInstant /\ ri = 0

CallFormatTimeAgo ==
    /\ pc = "formatTimeAgo"
    /\ ago' = formatTimeAgo(dur)
    /\ pc' = "returned"
    /\ UNCHANGED <<ArgVars, dur, server, reviewComments, issueComments, reviews,
                   rollup, feedback, calls, stdout, stderr, exitCode, clock, ri>>

NextTimeAgo == CallFormatTimeAgo

SpecTimeAgo == InitTimeAgo /\ [][NextTimeAgo]_vars

Ago(n, unit) == ToString(n) \o " " \o unit \o (IF n = 1 THEN "" ELSE "s") \o " ago"

\* C10: for a duration of dur whole seconds formatTimeAgo returns "just now"
\* below 60 (also below 0), N minute(s) below 3600 with N = dur div 60,
\* N hour(s) below 86400 with N = dur div 3600, N day(s) below 30 days with
\* N = days, N month(s) below 365 days with N = days div 30, and N year(s)
\* otherwise with N = days div 365, where days = dur div 86400; N >= 1 and
\* the unit is singular exactly when N = 1.
C10_TimeAgoBuckets ==
    pc = "returned" =>
        LET days == dur \div 86400
            n == IF dur < 3600 THEN dur \div 60
                 ELSE IF dur < 86400 THEN dur \div 3600
                 ELSE IF days < 30 THEN days
                 ELSE IF days < 365 THEN days \div 30
                 ELSE days \div 365
            unit == IF dur < 3600 THEN "minute"
                    ELSE IF dur < 86400 THEN "hour"
                    ELSE IF days < 30 THEN "day"
                    ELSE IF days < 365 THEN "month"
                    ELSE "year"
        IN  IF dur < 60 THEN ago = "just now"
            ELSE n >= 1 /\ ago = Ago(n, unit)

\* two days less one second ago: one day, in the singular
C10_Witness ==
    /\ pc = "returned"
    /\ dur = 2 * 86400 - 1
    /\ ago = "1 day ago"

----------------------------------------------------------------------------
(* Properties of the argument loop *)

RECURSIVE Positionals(_)
\* the positional arguments of a command line: not a flag, not the value of
\* --repo
Positionals(as) ==
    IF as = <<>> THEN <<>>
    ELSE IF Text(Head(as)) \in {"--repo", "-R"}
    THEN (IF Len(as) >= 2 THEN Positionals(Tail(Tail(as))) ELSE <<>>)
    ELSE IF HasDashPrefix(Head(as)) THEN Positionals(Tail(as))
    ELSE <<Head(as)>> \o Positionals(Tail(as))

PositiveInts(as) ==
    SelectSeq(Positionals(as), LAMBDA a : ~Atoi(a).err /\ Atoi(a).num > 0)
OtherPositionals(as) ==
    SelectSeq(Positionals(as), LAMBDA a : Atoi(a).err \/ Atoi(a).num <= 0)

\* C5: after the argument loop the PR number is the first positional argument
\* that parses as a positive integer, and the working directory is the first
\* positional argument that does not.
C5_FirstPositionalWins ==
    pc = "resolve" =>
        /\ PositiveInts(args) # <<>> => prNumber = Atoi(PositiveInts(args)[1]).num
        /\ OtherPositionals(args) # <<>> => targetDir = Text(OtherPositionals(args)[1])

RECURSIVE RepoValues(_)
\* the values given with --repo or -R on a command line, in order
RepoValues(as) ==
    IF as = <<>> THEN <<>>
    ELSE IF Text(Head(as)) \in {"--repo", "-R"}
    THEN (IF Len(as) >= 2
          THEN <<Text(as[2])>> \o RepoValues(Tail(Tail(as))) ELSE <<>>)
    ELSE RepoValues(Tail(as))

\* the command line gives a PR number / a repository
PRGiven == PositiveInts(args) # <<>>
RepoGiven == \E k \in DOMAIN RepoValues(args) : RepoValues(args)[k] # ""

NeedsRepoMessage == "Error: PR number provided but couldn't determine repository."

\* C11: with a PR number and without --repo, the run gives up asking for
\* --repo only when the repository itself could not be inferred, that is only
\* after gh repo view was run (and failed); whatever the lookup of the current
\* branch's PR gave, a successful gh repo view lets the run go on with the given
\* PR number.  With a PR number and --repo, no lookup is run at all.
C11_RepoInferredForGivenPR ==
    /\ (PRGiven /\ ~RepoGiven /\ NeedsRepoMessage \in Range(stderr)) =>
           RepoViewCommand \in Range(calls)
    /\ (PRGiven /\ ~RepoGiven /\ pc = "fetchPR") =>
           /\ \E k \in DOMAIN PositiveInts(args) :
                 prNumber = Atoi(PositiveInts(args)[k]).num
           /\ repoName # ""
    /\ (PRGiven /\ RepoGiven /\ pc \in {"resolve", "fetchPR"}) => calls = <<>>

====
